---- MODULE Spec2Model ----
(***************************************************************************)
(* TTLStore (src/src/mod.ts): a time-to-live overlay on a Storage-like     *)
(* key/value string store.                                                 *)
(*                                                                         *)
(* JavaScript strings are sequences of one-character strings, so that the  *)
(* record format "<expireAt>:<payload>", indexOf(':'), slice, Number(...)  *)
(* and the JSON round trip are computed and not assumed.  JavaScript       *)
(* numbers are records [kind, n] with kind "num", "inf" or "nan".          *)
(* A value of type  string | null  is a sequence of length at most one:    *)
(* <<>> is null and <<s>> is the string s.                                 *)
(***************************************************************************)
EXTENDS Integers, Sequences, FiniteSets, TLC

(***************************************************************************)
(* Bounds of the model.                                                    *)
(***************************************************************************)
\* Date.now() when the TTLStore is constructed.
StartTime == 1000
\* The clock advances at most MaxTicks times, by TickMs milliseconds each.
MaxTicks == 2

\* setItem / setExpire: seconds to milliseconds.
MsPerSecond == 1000
TickMs == MsPerSecond

Name == <<"m">>
Keys == {<<"a">>, <<"b">>}
Str(s) == [type |-> "string", text |-> s]
Values == {Str(<<"v">>), Str(<<"w", ":">>)}
Ttls == {-1, 0, 1}

(***************************************************************************)
(* JavaScript numbers.                                                     *)
(***************************************************************************)
Num(n) == [kind |-> "num", n |-> n]
NaN == [kind |-> "nan", n |-> 0]
Infinity == [kind |-> "inf", n |-> 0]
isNaN(x) == x.kind = "nan"
\* x > y
Gt(x, y) ==
    IF isNaN(x) \/ isNaN(y) THEN FALSE
    ELSE IF x.kind = "inf" THEN y.kind = "num"
    ELSE IF y.kind = "inf" THEN FALSE
    ELSE x.n > y.n
\* a value used as a condition (x || y): 0 and NaN are falsy
Truthy(x) == ~isNaN(x) /\ x # Num(0)

(***************************************************************************)
(* JavaScript strings.                                                     *)
(***************************************************************************)
Digits == <<"0", "1", "2", "3", "4", "5", "6", "7", "8", "9">>
IsDigit(c) == \E i \in 1..10 : Digits[i] = c
DigitVal(c) == (CHOOSE i \in 1..10 : Digits[i] = c) - 1
IsDigits(s) == Len(s) > 0 /\ \A i \in 1..Len(s) : IsDigit(s[i])

RECURSIVE DigitsVal(_)
DigitsVal(s) ==
    IF Len(s) = 0 THEN 0
    ELSE 10 * DigitsVal(SubSeq(s, 1, Len(s) - 1)) + DigitVal(s[Len(s)])

RECURSIVE NatToString(_)
NatToString(n) ==
    IF n < 10 THEN <<Digits[n + 1]>>
    ELSE NatToString(n \div 10) \o <<Digits[(n % 10) + 1]>>

InfinityText == <<"I", "n", "f", "i", "n", "i", "t", "y">>
NaNText == <<"N", "a", "N">>

\* `${x}` and x.toFixed() of an integral number
NumberToString(x) ==
    IF x.kind = "nan" THEN NaNText
    ELSE IF x.kind = "inf" THEN InfinityText
    ELSE IF x.n < 0 THEN <<"-">> \o NatToString(-x.n)
    ELSE NatToString(x.n)

\* Number(s) of a string over the alphabet of the model (digits, '-',
\* letters and punctuation; no white space, '+', '.', 'e' or 'x' forms)
StringToNumber(s) ==
    IF s = <<>> THEN Num(0)
    ELSE IF s = InfinityText THEN Infinity
    ELSE IF IsDigits(s) THEN Num(DigitsVal(s))
    ELSE IF Head(s) = "-" /\ IsDigits(Tail(s)) THEN Num(0 - DigitsVal(Tail(s)))
    ELSE NaN

\* Number(value) of a  string | null : Number(null) is 0
ToNumber(value) == IF value = <<>> THEN Num(0) ELSE StringToNumber(value[1])

\* s.indexOf(c): zero-based index of the first occurrence, or -1
indexOf(s, c) ==
    IF \E i \in 1..Len(s) : s[i] = c
    THEN (CHOOSE i \in 1..Len(s) : s[i] = c /\ \A j \in 1..(i - 1) : s[j] # c) - 1
    ELSE -1
\* s.slice(from) and s.slice(from, to), zero-based, to exclusive
sliceFrom(s, from) == SubSeq(s, from + 1, Len(s))
slice(s, from, to) == SubSeq(s, from + 1, to)
startsWith(s, p) == Len(s) >= Len(p) /\ SubSeq(s, 1, Len(p)) = p

(***************************************************************************)
(* JSON of the values of the model: strings without '"' and '\', and       *)
(* non-negative integers.                                                  *)
(***************************************************************************)
Quote == "\""
JSONstringify(v) ==
    IF v.type = "string" THEN <<Quote>> \o v.text \o <<Quote>> ELSE v.text

IsStringLiteral(s) ==
    /\ Len(s) >= 2
    /\ s[1] = Quote
    /\ s[Len(s)] = Quote
    /\ \A i \in 2..(Len(s) - 1) : s[i] # Quote

\* JSON.parse(s): <<v>> for the value v, <<>> when it throws or yields null
JSONparse(s) ==
    IF IsStringLiteral(s) THEN <<Str(SubSeq(s, 2, Len(s) - 1))>>
    ELSE IF IsDigits(s) /\ (Len(s) = 1 \/ s[1] # "0")
    THEN <<[type |-> "number", text |-> s]>>
    ELSE <<>>

\* value: string | null
tryJson(value) == IF value = <<>> THEN <<>> ELSE JSONparse(value[1])

\* a bug: the boundary expireAt = now counts as fresh
checkFresh_inclusive(expireAt, now) ==
    IF expireAt = Num(-1) THEN TRUE
    ELSE IF isNaN(expireAt) THEN FALSE
    ELSE expireAt = now \/ Gt(expireAt, now)

checkFresh(expireAt, now) ==
    IF expireAt = Num(-1) THEN TRUE
    ELSE IF isNaN(expireAt) THEN FALSE
    ELSE Gt(expireAt, now)

(***************************************************************************)
(* The underlying store (StorePartial): a finite map from keys to strings. *)
(* A call of a store method on a key may throw (quota exceeded, access     *)
(* denied): b is the set of <<method, key>> pairs that throw during the    *)
(* operation at hand; length and key(i) are paired with the empty key.     *)
(***************************************************************************)
NoKey == <<>>
fails(b, method, skey) == <<method, skey>> \in b
storeGetItem(s, skey) == IF skey \in DOMAIN s THEN <<s[skey]>> ELSE <<>>
storeSetItem(s, skey, value) ==
    [x \in DOMAIN s \cup {skey} |-> IF x = skey THEN value ELSE s[x]]
storeRemoveItem(s, skey) == [x \in DOMAIN s \ {skey} |-> s[x]]
storeLength(s) == Cardinality(DOMAIN s)

(***************************************************************************)
(* class TTLStore.  s is the store, b the failing store calls, t the value *)
(* of Date.now() during the (synchronous) operation.                       *)
(***************************************************************************)
makeKey(key) == Name \o <<":">> \o key
\* a bug: the data key is the bare logical key, without the namespace
makeDataKey_bare(key) == key

makeDataKey(key) == Name \o <<".">> \o key
NextKey == makeKey(<<"n", "e", "x", "t">>)

\* [threw, value]
getNext(s, b) ==
    IF fails(b, "getItem", NextKey)
    THEN [threw |-> TRUE, value |-> NaN]
    ELSE LET n == ToNumber(storeGetItem(s, NextKey))
         IN  [threw |-> FALSE, value |-> IF Truthy(n) THEN n ELSE Infinity]

NULL_DATA == [expireAt |-> Num(1), item |-> <<>>]

\* a bug: the result for an absent entry carries the expiration "never"
S_get_absentNever(s, b, t, key) ==
    LET value == storeGetItem(s, makeDataKey(key))
        absent == [expireAt |-> Num(-1), item |-> <<>>]
    IN  IF value = <<>> \/ value[1] = <<>> THEN absent
        ELSE LET index == indexOf(value[1], ":")
                 expireAt == StringToNumber(slice(value[1], 0, index))
             IN  IF index < 1 THEN absent
                 ELSE IF ~checkFresh(expireAt, Num(t)) THEN absent
                 ELSE [expireAt |-> expireAt,
                       item |-> <<sliceFrom(value[1], index + 1)>>]

\* a bug: an expired record that is still in the store is read
S_get_stale(s, b, t, key) ==
    LET value == storeGetItem(s, makeDataKey(key))
    IN  IF value = <<>> \/ value[1] = <<>> THEN NULL_DATA
        ELSE IF indexOf(value[1], ":") < 1 THEN NULL_DATA
        ELSE [expireAt |-> StringToNumber(
                               slice(value[1], 0, indexOf(value[1], ":"))),
              item |-> <<sliceFrom(value[1], indexOf(value[1], ":") + 1)>>]

\* $get: [expireAt, item]; never throws
S_get(s, b, t, key) ==
    LET dataKey == makeDataKey(key)
        value == storeGetItem(s, dataKey)
    IN  IF fails(b, "getItem", dataKey) THEN NULL_DATA
        ELSE IF value = <<>> \/ value[1] = <<>> THEN NULL_DATA
        ELSE LET index == indexOf(value[1], ":")
                 expireAt == StringToNumber(slice(value[1], 0, index))
             IN  IF index < 1 THEN NULL_DATA
                 ELSE IF ~checkFresh(expireAt, Num(t)) THEN NULL_DATA
                 ELSE [expireAt |-> expireAt,
                       item |-> <<sliceFrom(value[1], index + 1)>>]

\* a bug: only a null item is a removal, a due expiration is written
S_set_writesDue(s, b, t, key, item, expireAt) ==
    LET dataKey == makeDataKey(key)
        s1 == storeSetItem(s, dataKey,
                  NumberToString(expireAt) \o <<":">> \o item[1])
    IN  IF item = <<>>
        THEN [store |-> storeRemoveItem(s, dataKey), threw |-> FALSE]
        ELSE IF isNaN(expireAt) \/ Gt(expireAt, getNext(s1, b).value)
        THEN [store |-> s1, threw |-> FALSE]
        ELSE [store |-> storeSetItem(s1, NextKey, NumberToString(expireAt)),
              threw |-> FALSE]

\* a bug: the sentinel is written once and not lowered afterwards
S_set_firstOnly(s, b, t, key, item, expireAt) ==
    LET dataKey == makeDataKey(key)
        s1 == storeSetItem(s, dataKey,
                  NumberToString(expireAt) \o <<":">> \o item[1])
    IN  IF item = <<>> \/ ~checkFresh(expireAt, Num(t))
        THEN [store |-> storeRemoveItem(s, dataKey), threw |-> FALSE]
        ELSE IF isNaN(expireAt) \/ NextKey \in DOMAIN s1
        THEN [store |-> s1, threw |-> FALSE]
        ELSE [store |-> storeSetItem(s1, NextKey, NumberToString(expireAt)),
              threw |-> FALSE]

\* a bug: the sentinel follows the latest expiration, not the soonest
S_set_raises(s, b, t, key, item, expireAt) ==
    LET dataKey == makeDataKey(key)
        s1 == storeSetItem(s, dataKey,
                  NumberToString(expireAt) \o <<":">> \o item[1])
    IN  IF item = <<>> \/ ~checkFresh(expireAt, Num(t))
        THEN [store |-> storeRemoveItem(s, dataKey), threw |-> FALSE]
        ELSE IF isNaN(expireAt) \/ Gt(getNext(s1, b).value, expireAt)
        THEN [store |-> s1, threw |-> FALSE]
        ELSE [store |-> storeSetItem(s1, NextKey, NumberToString(expireAt)),
              threw |-> FALSE]

\* $set: [store, threw]
S_set(s, b, t, key, item, expireAt) ==
    LET dataKey == makeDataKey(key)
    IN  IF item = <<>> \/ ~checkFresh(expireAt, Num(t))
        THEN IF fails(b, "removeItem", dataKey)
             THEN [store |-> s, threw |-> TRUE]
             ELSE [store |-> storeRemoveItem(s, dataKey), threw |-> FALSE]
        ELSE IF fails(b, "setItem", dataKey)
        THEN [store |-> s, threw |-> TRUE]
        ELSE LET s1 == storeSetItem(s, dataKey,
                           NumberToString(expireAt) \o <<":">> \o item[1])
                 next == getNext(s1, b)
             IN  IF isNaN(expireAt) THEN [store |-> s1, threw |-> FALSE]
                 ELSE IF next.threw THEN [store |-> s1, threw |-> TRUE]
                 ELSE IF Gt(expireAt, next.value)
                 THEN [store |-> s1, threw |-> FALSE]
                 ELSE IF fails(b, "setItem", NextKey)
                 THEN [store |-> s1, threw |-> TRUE]
                 ELSE [store |-> storeSetItem(s1, NextKey,
                                     NumberToString(expireAt)),
                       threw |-> FALSE]

\* $list: [threw, data], data the map from logical key to expireAt
S_list(s, b, t) ==
    LET prefix == makeDataKey(<<>>)
        keys == {sliceFrom(skey, Len(prefix)) :
                     skey \in {x \in DOMAIN s : startsWith(x, prefix)}}
    IN  IF fails(b, "length", NoKey)
           \/ (storeLength(s) > 0 /\ fails(b, "key", NoKey))
        THEN [threw |-> TRUE, data |-> <<>>]
        ELSE [threw |-> FALSE,
              data |-> [key \in keys |-> S_get(s, b, t, key).expireAt]]

\* this.$set(key, null, -1) for every key of K, none of which throws
RECURSIVE removeAll(_, _, _, _)
removeAll(s, b, t, K) ==
    IF K = {} THEN s
    ELSE LET key == CHOOSE k \in K : TRUE
         IN  removeAll(S_set(s, b, t, key, <<>>, Num(-1)).store, b, t,
                       K \ {key})

\* a bug: a sweep removes the fresh records with the stale ones
clean_everything(s, b, t) ==
    LET next == getNext(s, b)
        list == S_list(s, b, t)
    IN  IF Gt(next.value, Num(t))
        THEN {[store |-> s, threw |-> FALSE]}
        ELSE {[store |-> removeAll(s, b, t, DOMAIN list.data), threw |-> FALSE]}

\* a bug: the fast path is taken at the very millisecond of the sentinel
clean_lateFastPath(s, b, t) ==
    LET next == getNext(s, b)
        list == S_list(s, b, t)
        stale == {key \in DOMAIN list.data : ~checkFresh(list.data[key], Num(t))}
    IN  IF next.value = Num(t) \/ Gt(next.value, Num(t))
        THEN {[store |-> s, threw |-> FALSE]}
        ELSE {[store |-> removeAll(s, b, t, stale), threw |-> FALSE]}

\* a bug: a sweep stops after the first stale record
clean_oneAtATime(s, b, t) ==
    LET next == getNext(s, b)
        list == S_list(s, b, t)
        stale == {key \in DOMAIN list.data : ~checkFresh(list.data[key], Num(t))}
    IN  IF Gt(next.value, Num(t)) \/ stale = {}
        THEN {[store |-> s, threw |-> FALSE]}
        ELSE {[store |-> removeAll(s, b, t, {CHOOSE key \in stale : TRUE}),
               threw |-> FALSE]}

\* clean(): the set of possible outcomes [store, threw].  The order in which
\* the store enumerates its keys is not specified, so when removing some
\* stale key throws, any set of the other stale keys may have been removed
\* before it.
clean(s, b, t) ==
    LET next == getNext(s, b)
        list == S_list(s, b, t)
        stale == {key \in DOMAIN list.data : ~checkFresh(list.data[key], Num(t))}
        failing == {key \in stale : S_set(s, b, t, key, <<>>, Num(-1)).threw}
    IN  IF next.threw THEN {[store |-> s, threw |-> TRUE]}
        ELSE IF Gt(next.value, Num(t)) THEN {[store |-> s, threw |-> FALSE]}
        ELSE IF list.threw THEN {[store |-> s, threw |-> TRUE]}
        ELSE IF failing = {}
        THEN {[store |-> removeAll(s, b, t, stale), threw |-> FALSE]}
        ELSE {[store |-> removeAll(s, b, t, R), threw |-> TRUE] :
                  R \in SUBSET (stale \ failing)}

\* a bug: the expiration read with the payload is written back
setExpireAt_stale(s, b, t, key, expireAt) ==
    S_set(s, b, t, key, S_get(s, b, t, key).item, S_get(s, b, t, key).expireAt)

\* [store, threw]
setExpireAt(s, b, t, key, expireAt) ==
    S_set(s, b, t, key, S_get(s, b, t, key).item, expireAt)

setExpire(s, b, t, key, expire) ==
    IF expire < 0 THEN setExpireAt(s, b, t, key, Num(-1))
    ELSE setExpireAt(s, b, t, key, Num(t + expire * MsPerSecond))

\* getItem(): the set of possible outcomes [store, threw, value]
getItem(s, b, t, key) ==
    {IF c.threw
     THEN [store |-> c.store, threw |-> TRUE, value |-> <<>>]
     ELSE [store |-> c.store, threw |-> FALSE,
           value |-> tryJson(S_get(c.store, b, t, key).item)] :
         c \in clean(s, b, t)}

\* a bug: only a record that can still be read is removed
removeItem_freshOnly(s, b, t, key) ==
    IF S_get(s, b, t, key).item = <<>> THEN [store |-> s, threw |-> FALSE]
    ELSE S_set(s, b, t, key, <<>>, Num(-1))

removeItem(s, b, t, key) == S_set(s, b, t, key, <<>>, Num(-1))

\* try { ... } catch (_e) {}
setItemUntil(s, b, t, key, value, expireAt) ==
    [store |-> S_set(s, b, t, key, <<JSONstringify(value)>>, expireAt).store,
     threw |-> FALSE]

\* a bug: a negative ttl is not taken to mean "never"
setItem_noNever(s, b, t, key, value, expire) ==
    setItemUntil(s, b, t, key, value, Num(t + expire * MsPerSecond))

setItem(s, b, t, key, value, expire) ==
    IF expire < 0 THEN setItemUntil(s, b, t, key, value, Num(-1))
    ELSE setItemUntil(s, b, t, key, value, Num(t + expire * MsPerSecond))

\* a bug: the update writes the default expiration
updateItem_never(s, b, t, key, value) ==
    setItemUntil(s, b, t, key, value, Num(-1))

updateItem(s, b, t, key, value) ==
    setItemUntil(s, b, t, key, value, S_get(s, b, t, key).expireAt)

(***************************************************************************)
(* State.                                                                  *)
(*   store   the records of the underlying store                           *)
(*   now     Date.now()                                                    *)
(*   op      the public operation called last, and its key                 *)
(*   ret     what that call returned (<<>> is null / undefined)            *)
(*   raised  whether that call raised to its caller                        *)
(*   hist    per key: the value and the expiration of the last setItem of  *)
(*           the key with a ttl other than 0, when the caller has not      *)
(*           written or removed the key since (NoWrite otherwise)          *)
(*   before  the record of op's key in the store just before the call, for *)
(*           getItem, removeItem, updateItem, setExpire and setExpireAt    *)
(*           (<<>> after the other calls, which overwrite it unread)       *)
(*   inst    per TTLStore instance on the store: where it stands inside    *)
(*           the call it is running, and that call's local variables       *)
(*           (every instance is idle between two calls)                    *)
(***************************************************************************)
VARIABLES store, now, op, ret, raised, hist, before, inst
vars == <<store, now, op, ret, raised, hist, before, inst>>

EmptyStore == <<>>
NoWrite == [set |-> FALSE, value |-> <<>>, expireAt |-> NaN]
Call(name, key) == [name |-> name, key |-> key]
Instances == {1, 2}
\* an instance that is running no call
Idle == [pc |-> "idle", key |-> NoKey, expireAt |-> NaN, data |-> {}]
AllIdle == [i \in Instances |-> Idle]

\* the expiration a relative ttl in seconds stands for
expireAtOf(t, expire) == IF expire < 0 THEN Num(-1) ELSE Num(t + expire * MsPerSecond)

\* new TTLStore(name, store): the constructor runs clean()
construct(s, b, t) == clean(s, b, t)

Init ==
    /\ store \in {c.store : c \in construct(EmptyStore, {}, StartTime)}
    /\ now = StartTime
    /\ op = Call("constructor", NoKey)
    /\ ret = <<>>
    /\ raised = FALSE
    /\ hist = [key \in Keys |-> NoWrite]
    /\ before = <<>>
    /\ inst = AllIdle

\* the clock advances between two calls
Tick ==
    /\ now < StartTime + MaxTicks * TickMs
    /\ now' = now + TickMs
    /\ op' = Call("tick", NoKey)
    /\ ret' = <<>>
    /\ raised' = FALSE
    /\ before' = <<>>
    /\ UNCHANGED <<store, hist, inst>>

Clean(b) ==
    \E c \in clean(store, b, now) :
        /\ store' = c.store
        /\ raised' = c.threw
        /\ op' = Call("clean", NoKey)
        /\ ret' = <<>>
        /\ before' = <<>>
        /\ UNCHANGED <<now, hist, inst>>

GetItem(key, b) ==
    \E g \in getItem(store, b, now, key) :
        /\ store' = g.store
        /\ raised' = g.threw
        /\ ret' = g.value
        /\ op' = Call("getItem", key)
        /\ before' = storeGetItem(store, makeDataKey(key))
        /\ UNCHANGED <<now, hist, inst>>

\* a write of key: r is its outcome [store, threw], h what hist keeps of it
Write(name, key, r, h) ==
    /\ store' = r.store
    /\ raised' = r.threw
    /\ ret' = <<>>
    /\ op' = Call(name, key)
    /\ before' = IF name \in {"setItem", "setItemUntil"} THEN <<>>
                 ELSE storeGetItem(store, makeDataKey(key))
    /\ hist' = [hist EXCEPT ![key] = h]
    /\ UNCHANGED <<now, inst>>

SetItem(key, value, expire, b) ==
    Write("setItem", key, setItem(store, b, now, key, value, expire),
          IF b = {} /\ expire # 0
          THEN [set |-> TRUE, value |-> <<value>>,
                expireAt |-> expireAtOf(now, expire)]
          ELSE NoWrite)

SetItemUntil(key, value, expireAt, b) ==
    Write("setItemUntil", key,
          setItemUntil(store, b, now, key, value, expireAt), NoWrite)

UpdateItem(key, value, b) ==
    Write("updateItem", key, updateItem(store, b, now, key, value), NoWrite)

SetExpire(key, expire, b) ==
    Write("setExpire", key, setExpire(store, b, now, key, expire), NoWrite)

SetExpireAt(key, expireAt, b) ==
    Write("setExpireAt", key, setExpireAt(store, b, now, key, expireAt),
          NoWrite)

RemoveItem(key, b) ==
    Write("removeItem", key, removeItem(store, b, now, key), NoWrite)

\* the absolute expirations the callers pass at time t
ExpireAts(t) == {Num(-1), NaN, Num(t), Num(t + TickMs), Num(t + 2 * TickMs)}

Next ==
    \/ Tick
    \/ Clean({})
    \/ \E key \in Keys : GetItem(key, {})
    \/ \E key \in Keys, value \in Values, expire \in Ttls :
           SetItem(key, value, expire, {})
    \/ \E key \in Keys, value \in Values, expireAt \in ExpireAts(now) :
           SetItemUntil(key, value, expireAt, {})
    \/ \E key \in Keys, value \in Values : UpdateItem(key, value, {})
    \/ \E key \in Keys, expire \in Ttls : SetExpire(key, expire, {})
    \/ \E key \in Keys, expireAt \in ExpireAts(now) :
           SetExpireAt(key, expireAt, {})
    \/ \E key \in Keys : RemoveItem(key, {})

\* one TTLStore on a store that is empty at construction and never fails
Spec == Init /\ [][Next]_vars

(***************************************************************************)
(* A store that already holds records when it is handed to the            *)
(* constructor (localStorage outlives the TTLStore): records written by an *)
(* earlier TTLStore, and records that are malformed.                       *)
(***************************************************************************)
JsonV == <<Quote, "v", Quote>>
PreRecords ==
    { <<>>,                                          \* the empty string
      <<"x">>,                                       \* no colon
      <<":", "x">>,                                  \* colon at index 0
      <<"x", ":">> \o JsonV,                         \* expireAt not a number
      <<"-", "1", ":", "x">>,                        \* payload not JSON
      NumberToString(Num(StartTime - 1)) \o <<":">> \o JsonV,
      NumberToString(Num(StartTime + TickMs)) \o <<":">> \o JsonV,
      <<"-", "1", ":">> \o JsonV }
PreKey == <<"a">>
PreSentinels ==
    { <<>>,                                          \* no sentinel record
      <<NumberToString(Num(StartTime - 1))>>,
      <<NumberToString(Num(StartTime + 2 * TickMs))>> }
PreStores ==
    { [skey \in {makeDataKey(key) : key \in K} \cup
                {x \in {NextKey} : n # <<>>} |->
          IF skey = NextKey THEN n[1] ELSE rec] :
        K \in {{}, {PreKey}},
        rec \in PreRecords, n \in PreSentinels }

InitRaw ==
    /\ store \in UNION {{c.store : c \in construct(s, {}, StartTime)} :
                           s \in PreStores}
    /\ now = StartTime
    /\ op = Call("constructor", NoKey)
    /\ ret = <<>>
    /\ raised = FALSE
    /\ hist = [key \in Keys |-> NoWrite]
    /\ before = <<>>
    /\ inst = AllIdle

\* one TTLStore on a store with earlier contents, which never fails
SpecRaw == InitRaw /\ [][Next]_vars

(***************************************************************************)
(* A store whose calls may throw.                                          *)
(***************************************************************************)
\* the store calls an operation on key makes outside clean()
FaultsOn(key) ==
    { <<"getItem", makeDataKey(key)>>, <<"setItem", makeDataKey(key)>>,
      <<"removeItem", makeDataKey(key)>>, <<"getItem", NextKey>>,
      <<"setItem", NextKey>> }
\* the store calls of clean()
ScanFaults ==
    { <<"getItem", NextKey>>, <<"length", NoKey>>, <<"key", NoKey>> }
    \cup { <<"getItem", makeDataKey(key)>> : key \in Keys }
    \cup { <<"removeItem", makeDataKey(key)>> : key \in Keys }
\* no call fails, or one does
FaultSets(F) == {{}} \cup {{f} : f \in F}
FailValue == Str(<<"v">>)
FailTtls == {-1, 1}
FailExpireAts(t) == {Num(-1), Num(t + TickMs)}

NextFail ==
    \/ Tick
    \/ \E b \in FaultSets(ScanFaults) : Clean(b)
    \/ \E key \in Keys :
         \E b \in FaultSets(ScanFaults \cup FaultsOn(key)) :
           GetItem(key, b)
    \/ \E key \in Keys, expire \in FailTtls :
         \E b \in FaultSets(FaultsOn(key)) :
           SetItem(key, FailValue, expire, b)
    \/ \E key \in Keys, expireAt \in FailExpireAts(now) :
         \E b \in FaultSets(FaultsOn(key)) :
           SetItemUntil(key, FailValue, expireAt, b)
    \/ \E key \in Keys :
         \E b \in FaultSets(FaultsOn(key)) :
           UpdateItem(key, FailValue, b)
    \/ \E key \in Keys, expire \in FailTtls :
         \E b \in FaultSets(FaultsOn(key)) :
           SetExpire(key, expire, b)
    \/ \E key \in Keys, expireAt \in FailExpireAts(now) :
         \E b \in FaultSets(FaultsOn(key)) :
           SetExpireAt(key, expireAt, b)
    \/ \E key \in Keys :
         \E b \in FaultSets(FaultsOn(key)) :
           RemoveItem(key, b)

\* one TTLStore on a store that is empty at construction and may fail
SpecFail == Init /\ [][NextFail]_vars

(***************************************************************************)
(* Observations the claims are stated with.  They read the records with    *)
(* integer comparisons of their own, not with checkFresh.                  *)
(***************************************************************************)
HasRecord(s, key) == makeDataKey(key) \in DOMAIN s
\* the expiration and the payload written in a raw record
rawExpireAt(raw) ==
    IF indexOf(raw, ":") < 1 THEN NaN
    ELSE StringToNumber(slice(raw, 0, indexOf(raw, ":")))
rawPayload(raw) == sliceFrom(raw, indexOf(raw, ":") + 1)
\* e is a point in time that has come at time t
Passed(e, t) == e.kind = "num" /\ e # Num(-1) /\ e.n <= t
\* e is -1 (never) or a point in time still to come at time t
Ahead(e, t) == e = Num(-1) \/ e.kind = "inf" \/ (e.kind = "num" /\ e.n > t)
\* the store holds a record of key whose expiration has come
Due(s, t, key) ==
    HasRecord(s, key) /\ Passed(rawExpireAt(s[makeDataKey(key)]), t)
\* the store holds a well-formed record of key that has not expired
Fresh(s, t, key) ==
    HasRecord(s, key) /\ Ahead(rawExpireAt(s[makeDataKey(key)]), t)
\* what getItem(key) returns when called on store s at time t
Returned(s, t, key) == {g.value : g \in getItem(s, {}, t, key)}
\* the times from t on that the clock of the model reaches
TimesFrom(t) == {u \in {StartTime + i * TickMs : i \in 0..(MaxTicks + 2)} : u >= t}
\* every readable record is read as the JSON value of its payload at every
\* time before its expiration, and as null from its expiration on
ReadUntilExpiry ==
    \A key \in Keys :
        Fresh(store, now, key) =>
            \A u \in TimesFrom(now) :
                Returned(store, u, key) =
                    {IF Ahead(rawExpireAt(store[makeDataKey(key)]), u)
                     THEN tryJson(<<rawPayload(store[makeDataKey(key)])>>)
                     ELSE <<>>}

(***************************************************************************)
(* C1: after setItem(k, v, ttl) with ttl > 0 at time t0, and as long as k  *)
(* is not written or removed again, getItem(k) returns v at every time     *)
(* before t0 + ttl*1000 and null from that time on (the boundary counts as *)
(* expired), whatever was done to other keys and whatever clean() ran.     *)
(***************************************************************************)
C1_ExpectedAt(key) ==
    IF now < hist[key].expireAt.n THEN hist[key].value ELSE <<>>
C1_SetItemTtl ==
    \A key \in Keys :
        (hist[key].set /\ hist[key].expireAt # Num(-1)) =>
            /\ Returned(store, now, key) = {C1_ExpectedAt(key)}
            /\ (op = Call("getItem", key) => ret = C1_ExpectedAt(key))
\* getItem at the very millisecond of expiry returned null, the record
\* having been in the store until this call
C1_Witness ==
    \E key \in Keys :
        /\ op = Call("getItem", key)
        /\ hist[key].set
        /\ hist[key].expireAt = Num(now)
        /\ before # <<>>
        /\ ret = <<>>
        /\ ~raised

(***************************************************************************)
(* C2: after setItem(k, v) without a ttl, getItem(k) returns v at every    *)
(* later time, after any clean() and any operation on other keys, until   *)
(* k itself is written or removed.                                         *)
(***************************************************************************)
C2_SetItemForever ==
    \A key \in Keys :
        (hist[key].set /\ hist[key].expireAt = Num(-1)) =>
            /\ Returned(store, now, key) = {hist[key].value}
            /\ (op = Call("getItem", key) => ret = hist[key].value)
\* getItem returned the value at the last instant of the clock, with the
\* other key's record gone
C2_Witness ==
    \E key \in Keys :
        /\ op = Call("getItem", key)
        /\ hist[key].set
        /\ hist[key].expireAt = Num(-1)
        /\ now = StartTime + MaxTicks * TickMs
        /\ ret = hist[key].value
        /\ ret # <<>>
        /\ DOMAIN store = {makeDataKey(key), NextKey}

(***************************************************************************)
(* C3: once the time is at or past the expiration of a stored record, the  *)
(* next clean() or getItem (of any key) deletes that record and leaves the *)
(* sentinel record in place, unchanged: in the test, 2 records become 1.   *)
(***************************************************************************)
C3_CleanDeletesDue ==
    [][\A key \in Keys :
          (/\ Due(store, now, key)
           /\ op'.name \in {"clean", "getItem"}
           /\ (Clean({}) \/ \E k \in Keys : GetItem(k, {}))) =>
              /\ ~HasRecord(store', key)
              /\ NextKey \in DOMAIN store
              /\ NextKey \in DOMAIN store'
              /\ store'[NextKey] = store[NextKey]]_vars
\* the test: getItem of the expired key found its record, returned null and
\* left the sentinel as the only record
C3_Witness ==
    \E key \in Keys :
        /\ op = Call("getItem", key)
        /\ before # <<>>
        /\ Passed(rawExpireAt(before[1]), now)
        /\ ret = <<>>
        /\ DOMAIN store = {NextKey}

(***************************************************************************)
(* C4: with one TTLStore on a store that was empty at construction, when   *)
(* the namespace holds a data record the sentinel record exists and its    *)
(* number is <= the expiration of every data record; so when clean() takes *)
(* the fast path (sentinel > now) no data record is due.                   *)
(***************************************************************************)
Sentinel == StringToNumber(store[NextKey])
C4_SentinelLowerBound ==
    /\ (\E key \in Keys : HasRecord(store, key)) =>
          /\ NextKey \in DOMAIN store
          /\ Sentinel.kind = "num"
          /\ \A key \in Keys :
                HasRecord(store, key) =>
                    LET e == rawExpireAt(store[makeDataKey(key)])
                    IN  e.kind = "num" /\ Sentinel.n <= e.n
    /\ Gt(getNext(store, {}).value, Num(now)) =>
          /\ \A key \in Keys : ~Due(store, now, key)
          /\ \A c \in clean(store, {}, now) : c.store = store
\* two records with different expirations, the sentinel at the smaller one,
\* and a clean() that took the fast path
C4_Witness ==
    /\ op = Call("clean", NoKey)
    /\ \A key \in Keys : HasRecord(store, key)
    /\ \E k1, k2 \in Keys :
          /\ rawExpireAt(store[makeDataKey(k1)]) = Sentinel
          /\ rawExpireAt(store[makeDataKey(k2)]).n > Sentinel.n
    /\ Sentinel.n > now

(***************************************************************************)
(* C5: no public operation raises to its caller, whichever call of the     *)
(* underlying store fails.                                                 *)
(***************************************************************************)
C5_NeverRaises == ~raised

(***************************************************************************)
(* C6: removeItem(k) makes getItem(k) return null, takes exactly one       *)
(* record out of the store when k had one (fresh or expired and not yet    *)
(* cleaned) and none otherwise, and changes neither the sentinel nor the   *)
(* record of another key.                                                  *)
(***************************************************************************)
C6_RemoveItem ==
    [][\A key \in Keys :
          /\ (op' = Call("removeItem", key) /\ RemoveItem(key, {})) =>
                /\ Returned(store', now', key) = {<<>>}
                /\ storeLength(store') =
                       storeLength(store) - (IF HasRecord(store, key) THEN 1 ELSE 0)
                /\ DOMAIN store' = DOMAIN store \ {makeDataKey(key)}
                /\ \A skey \in DOMAIN store' : store'[skey] = store[skey]
          /\ (op = Call("removeItem", key) /\ op' = Call("getItem", key)
                /\ GetItem(key, {})) => ret' = <<>>]_vars
\* removeItem took out a record that had expired and was not cleaned yet,
\* and left the other key's record and the sentinel
C6_Witness ==
    \E key \in Keys :
        /\ op = Call("removeItem", key)
        /\ before # <<>>
        /\ Passed(rawExpireAt(before[1]), now)
        /\ ~HasRecord(store, key)
        /\ \E other \in Keys \ {key} : HasRecord(store, other)
        /\ NextKey \in DOMAIN store

(***************************************************************************)
(* C7: updateItem(k, v2) of a key that holds a fresh entry with expiration *)
(* T leaves a record with payload v2 and the same T: getItem(k) returns v2 *)
(* before T and null from T on.                                            *)
(***************************************************************************)
C7_UpdateKeepsExpiry ==
    /\ []ReadUntilExpiry
    /\ [][\A key \in Keys, v2 \in Values :
            (/\ op' = Call("updateItem", key)
             /\ Fresh(store, now, key)
             /\ UpdateItem(key, v2, {})) =>
                /\ Fresh(store', now, key)
                /\ rawExpireAt(store'[makeDataKey(key)]) =
                       rawExpireAt(store[makeDataKey(key)])
                /\ rawPayload(store'[makeDataKey(key)]) = JSONstringify(v2)
                /\ tryJson(<<rawPayload(store'[makeDataKey(key)])>>) = <<v2>>]_vars
\* updateItem changed the payload of a record that expires at a time to come
C7_Witness ==
    \E key \in Keys :
        /\ op = Call("updateItem", key)
        /\ before # <<>>
        /\ HasRecord(store, key)
        /\ rawExpireAt(before[1]).n > now
        /\ rawExpireAt(store[makeDataKey(key)]) = rawExpireAt(before[1])
        /\ rawPayload(store[makeDataKey(key)]) # rawPayload(before[1])

(***************************************************************************)
(* C8: setExpireAt(k, T) (or setExpire with the ttl that stands for T) of  *)
(* a key that holds a fresh entry with value v, for T = -1 or T > now,     *)
(* leaves the payload as it was and the expiration at T, be T earlier or   *)
(* later than the one before: getItem(k) returns v while now < T and null  *)
(* from T on.                                                              *)
(***************************************************************************)
C8_Post(key, T) ==
    /\ Fresh(store', now, key)
    /\ rawPayload(store'[makeDataKey(key)]) = rawPayload(store[makeDataKey(key)])
    /\ rawExpireAt(store'[makeDataKey(key)]) = T
C8_SetExpireKeepsPayload ==
    /\ []ReadUntilExpiry
    /\ [][\A key \in Keys :
            /\ \A T \in ExpireAts(now) :
                  (/\ op' = Call("setExpireAt", key)
                   /\ Ahead(T, now)
                   /\ Fresh(store, now, key)
                   /\ SetExpireAt(key, T, {})) => C8_Post(key, T)
            /\ \A expire \in Ttls :
                  (/\ op' = Call("setExpire", key)
                   /\ Ahead(expireAtOf(now, expire), now)
                   /\ Fresh(store, now, key)
                   /\ SetExpire(key, expire, {})) =>
                      C8_Post(key, expireAtOf(now, expire))]_vars
\* setExpireAt moved the expiration of a readable entry to an earlier time
\* that is still to come
C8_Witness ==
    \E key \in Keys :
        /\ op = Call("setExpireAt", key)
        /\ before # <<>>
        /\ HasRecord(store, key)
        /\ rawExpireAt(store[makeDataKey(key)]).n > now
        /\ rawExpireAt(store[makeDataKey(key)]).n < rawExpireAt(before[1]).n
        /\ rawPayload(store[makeDataKey(key)]) = rawPayload(before[1])
        /\ Returned(store, now, key) # {<<>>}

(***************************************************************************)
(* C9: clean() is idempotent: a second clean() at the same time, with no   *)
(* write in between, leaves the store as the first one left it.            *)
(***************************************************************************)
C9_CleanIdempotent ==
    [][(op' = Call("clean", NoKey) /\ Clean({})) =>
          /\ \A c \in clean(store', {}, now') : c.store = store'
          /\ op = Call("clean", NoKey) => store' = store]_vars
\* clean() after a sweep: the sentinel is still due, so this call swept
\* again, and a fresh record is still there
C9_Witness ==
    /\ op = Call("clean", NoKey)
    /\ NextKey \in DOMAIN store
    /\ Passed(Sentinel, now)
    /\ \E key \in Keys : Fresh(store, now, key)
    /\ \E key \in Keys :
          hist[key].set /\ Passed(hist[key].expireAt, now) /\ ~HasRecord(store, key)

(***************************************************************************)
(* C10: getItem(k) returns null alike when k was never written, when k's   *)
(* record was removed, when the record's expiration is <= now (even with   *)
(* the raw record still in the store), and when the raw record is          *)
(* malformed: empty, no colon at index >= 1, an expiration that is not a   *)
(* number, or a payload that is not JSON.                                  *)
(***************************************************************************)
Malformed(raw) ==
    \/ raw = <<>>
    \/ indexOf(raw, ":") < 1
    \/ isNaN(rawExpireAt(raw))
    \/ JSONparse(rawPayload(raw)) = <<>>
C10_Unreadable(value, t) ==
    \/ value = <<>>
    \/ Malformed(value[1])
    \/ Passed(rawExpireAt(value[1]), t)
C10_GetItemNull ==
    \A key \in Keys :
        /\ C10_Unreadable(storeGetItem(store, makeDataKey(key)), now) =>
              Returned(store, now, key) = {<<>>}
        /\ (op = Call("getItem", key) /\ C10_Unreadable(before, now)) =>
              ret = <<>>
\* getItem returned null for an expired record and left it in the store
C10_Witness ==
    \E key \in Keys :
        /\ op = Call("getItem", key)
        /\ Due(store, now, key)
        /\ before = <<store[makeDataKey(key)]>>
        /\ ~Malformed(before[1])
        /\ ret = <<>>

(***************************************************************************)
(* C11: whenever every data record of the namespace is fresh at the        *)
(* current time, clean() (and so getItem) returns on the fast path: the    *)
(* sentinel read by getNext() is > now and the records are not enumerated. *)
(***************************************************************************)
AllFresh(s, t) == \A key \in Keys : HasRecord(s, key) => Fresh(s, t, key)
\* clean() goes past  if (next > now) return;  and enumerates the records
Scans(s, t) == ~Gt(getNext(s, {}).value, Num(t))
C11_FastPathWhenAllFresh == AllFresh(store, now) => ~Scans(store, now)

(***************************************************************************)
(* C12: when a sweep has evicted the entry the sentinel referred to (the   *)
(* sentinel is due and no record is), the next write of an entry with an   *)
(* expiration T still to come leaves the sentinel at T.                    *)
(***************************************************************************)
C12_Swept ==
    /\ op.name \in {"clean", "getItem"}
    /\ NextKey \in DOMAIN store
    /\ Passed(Sentinel, now)
    /\ \A key \in Keys : ~Due(store, now, key)
C12_WriteReseeds ==
    [][\A key \in Keys, value \in Values, T \in ExpireAts(now) :
          (/\ op' = Call("setItemUntil", key)
           /\ C12_Swept
           /\ T.kind = "num" /\ T.n > now
           /\ SetItemUntil(key, value, T, {})) =>
              store'[NextKey] = NumberToString(T)]_vars

(***************************************************************************)
(* C13: the sentinel is only lowered, never raised and never deleted: once *)
(* the sentinel record exists it stays, and its value after an operation   *)
(* is <= its value before.  A write that stores a record (its payload is   *)
(* not null and its expireAt is -1 or still to come) with expireAt <= the  *)
(* sentinel, or with no sentinel present, sets the sentinel to exactly     *)
(* that expireAt; every other operation leaves the sentinel as it was.     *)
(***************************************************************************)
WriteOps == {"setItem", "setItemUntil", "updateItem", "setExpire", "setExpireAt"}
\* a write of expireAt e is to set the sentinel
C13_Lowers(e) == NextKey \notin DOMAIN store \/ e.n <= Sentinel.n
\* the text of the expiration in a raw record
rawExpireText(raw) == slice(raw, 0, indexOf(raw, ":"))
C13_SentinelOnlyLowered ==
    [][IF storeGetItem(store', NextKey) = storeGetItem(store, NextKey)
       THEN \* unchanged: no record was stored that is to set the sentinel
            \/ op'.name \notin WriteOps
            \/ ~HasRecord(store', op'.key)
            \/ storeGetItem(store, NextKey) =
                   <<rawExpireText(store'[makeDataKey(op'.key)])>>
            \/ ~C13_Lowers(rawExpireAt(store'[makeDataKey(op'.key)]))
       ELSE \* changed: a stored record has set it to its own expiration
            /\ op'.name \in WriteOps
            /\ HasRecord(store', op'.key)
            /\ storeGetItem(store', NextKey) =
                   <<rawExpireText(store'[makeDataKey(op'.key)])>>
            /\ C13_Lowers(rawExpireAt(store'[makeDataKey(op'.key)]))]_vars
\* C13 as it was stated: every write with expireAt <= the sentinel (or with
\* no sentinel present) sets the sentinel, also a write that stores nothing
C13_AnyWriteSetsSentinel ==
    [][\A key \in Keys, T \in ExpireAts(now) :
          (/\ op' = Call("setItemUntil", key)
           /\ T.kind = "num"
           /\ C13_Lowers(T)
           /\ \E value \in Values : SetItemUntil(key, value, T, {})) =>
              storeGetItem(store', NextKey) = <<NumberToString(T)>>]_vars
\* setExpireAt moved a record to an expiration earlier than every other
\* one, and the sentinel is at that expiration
C13_Witness ==
    \E key \in Keys :
        /\ op = Call("setExpireAt", key)
        /\ before # <<>>
        /\ HasRecord(store, key)
        /\ rawExpireAt(store[makeDataKey(key)]).n > now
        /\ rawExpireAt(store[makeDataKey(key)]).n < rawExpireAt(before[1]).n
        /\ \E other \in Keys \ {key} :
              /\ HasRecord(store, other)
              /\ rawExpireAt(store[makeDataKey(other)]).n >
                     rawExpireAt(store[makeDataKey(key)]).n
        /\ NextKey \in DOMAIN store
        /\ Sentinel = rawExpireAt(store[makeDataKey(key)])

(***************************************************************************)
(* C14: when the sentinel is <= now, clean() deletes exactly the data      *)
(* records of the namespace that are not fresh at the time of the call:    *)
(* every fresh data record and the sentinel record stay as they were.      *)
(* When the sentinel is > now, or absent, clean() changes nothing.         *)
(***************************************************************************)
C14_SentinelDue ==
    NextKey \in DOMAIN store /\ Sentinel.kind = "num" /\ Sentinel.n <= now
C14_NotFresh ==
    {makeDataKey(key) : key \in {k \in Keys : HasRecord(store, k)
                                              /\ ~Fresh(store, now, k)}}
C14_CleanDeletesExactlyStale ==
    [][(op' = Call("clean", NoKey) /\ Clean({})) =>
          IF C14_SentinelDue
          THEN /\ DOMAIN store' = DOMAIN store \ C14_NotFresh
               /\ \A skey \in DOMAIN store' : store'[skey] = store[skey]
          ELSE store' = store]_vars
\* clean() with the sentinel due: a record written with a ttl that has run
\* out is gone, a record that has not expired and the sentinel are there
C14_Witness ==
    /\ op = Call("clean", NoKey)
    /\ C14_SentinelDue
    /\ \E key \in Keys :
          /\ hist[key].set
          /\ Passed(hist[key].expireAt, now)
          /\ ~HasRecord(store, key)
          /\ \E other \in Keys \ {key} :
                /\ Fresh(store, now, other)
                /\ rawExpireAt(store[makeDataKey(other)]).n > now

(***************************************************************************)
(* C15: updateItem, setExpire and setExpireAt of a key that has no fresh   *)
(* entry (never written, removed, or expired and not cleaned yet) create   *)
(* nothing: afterwards the store holds no data record of the key,          *)
(* getItem of the key returns null, and the sentinel and the records of    *)
(* the other keys are as they were.                                        *)
(***************************************************************************)
C15_NoResurrection ==
    [][(/\ op'.name \in {"updateItem", "setExpire", "setExpireAt"}
        /\ ~Fresh(store, now, op'.key)) =>
           /\ DOMAIN store' = DOMAIN store \ {makeDataKey(op'.key)}
           /\ \A skey \in DOMAIN store' : store'[skey] = store[skey]
           /\ Returned(store', now', op'.key) = {<<>>}]_vars
\* updateItem of a key whose record had expired and was still in the store:
\* the record is gone, the other key's record and the sentinel are there
C15_Witness ==
    \E key \in Keys :
        /\ op = Call("updateItem", key)
        /\ before # <<>>
        /\ Passed(rawExpireAt(before[1]), now)
        /\ ~HasRecord(store, key)
        /\ Returned(store, now, key) = {<<>>}
        /\ \E other \in Keys \ {key} : Fresh(store, now, other)
        /\ NextKey \in DOMAIN store

(***************************************************************************)
(* C16: when a write to the underlying store fails during setItemUntil or  *)
(* setItem, the call returns normally and the store is exactly as it was   *)
(* before the call: neither the data record nor the sentinel has changed,  *)
(* also when the data record is written and only the sentinel write fails. *)
(***************************************************************************)
\* the writes of setItemUntil(key, ...) to the underlying store
WriteFaults(key) == {<<"setItem", makeDataKey(key)>>, <<"setItem", NextKey>>}
C16_FailedWriteIsNoOp ==
    [][\A key \in Keys, expireAt \in FailExpireAts(now) :
        \A f \in WriteFaults(key) :
          (/\ op' = Call("setItemUntil", key)
           /\ S_set(store, {f}, now, key, <<JSONstringify(FailValue)>>,
                    expireAt).threw
           /\ SetItemUntil(key, FailValue, expireAt, {f})) =>
              /\ ~raised'
              /\ store' = store]_vars

(***************************************************************************)
(* Two TTLStore instances with the same name on the same store (two tabs   *)
(* on one localStorage).  Each call is synchronous in its own instance,    *)
(* but the store calls of the two instances interleave: clean() is the     *)
(* read of the sentinel, the listing, and one removal per stale key;       *)
(* setItem is the write of the record, the read of the sentinel and the    *)
(* write of the sentinel.  $list is taken as one step.  The clock advances *)
(* between calls, so Date.now() is the same throughout a call.             *)
(***************************************************************************)
\* the keys clean() is to remove: the non-fresh entries of the $list() data
staleKeys(s, t) ==
    LET list == S_list(s, {}, t)
    IN  {key \in DOMAIN list.data : ~checkFresh(list.data[key], Num(t))}

\* a change: the sweep reads the record again and leaves one that is fresh
sweepOne_recheck(s, t, key) ==
    IF S_get(s, {}, t, key).item = <<>>
    THEN S_set(s, {}, t, key, <<>>, Num(-1)).store
    ELSE s

\* this.$set(key, null, -1) of the sweep
sweepOne(s, t, key) == S_set(s, {}, t, key, <<>>, Num(-1)).store

\* a step of instance i that leaves it at r
Step(i, name, key, r) ==
    /\ inst' = [inst EXCEPT ![i] = r]
    /\ op' = Call(name, key)
    /\ ret' = <<>>
    /\ raised' = FALSE
    /\ UNCHANGED <<now, hist>>

TickIdle == inst = AllIdle /\ Tick

\* clean(): const next = this.getNext(); if (next > now) return;
CleanBegin(i) ==
    /\ inst[i].pc = "idle"
    /\ Step(i, "cleanBegin", NoKey,
            IF Gt(getNext(store, {}).value, Num(now)) THEN Idle
            ELSE [Idle EXCEPT !.pc = "list"])
    /\ before' = <<>>
    /\ UNCHANGED store

\* const data = this.$list();
CleanList(i) ==
    /\ inst[i].pc = "list"
    /\ Step(i, "cleanList", NoKey,
            IF staleKeys(store, now) = {} THEN Idle
            ELSE [Idle EXCEPT !.pc = "sweep", !.data = staleKeys(store, now)])
    /\ before' = <<>>
    /\ UNCHANGED store

\* one turn of the loop over the listed entries, in the store's key order
CleanDelete(i, key) ==
    /\ inst[i].pc = "sweep"
    /\ key \in inst[i].data
    /\ Step(i, "cleanDelete", key,
            IF inst[i].data = {key} THEN Idle
            ELSE [inst[i] EXCEPT !.data = @ \ {key}])
    /\ before' = storeGetItem(store, makeDataKey(key))
    /\ store' = sweepOne(store, now, key)

\* setItem -> setItemUntil -> $set, up to the write of the data record
SetBegin(i, key, value, expire) ==
    LET expireAt == expireAtOf(now, expire)
        fresh == checkFresh(expireAt, Num(now))
    IN  /\ inst[i].pc = "idle"
        /\ Step(i, "setBegin", key,
                IF fresh THEN [Idle EXCEPT !.pc = "next", !.key = key,
                                           !.expireAt = expireAt]
                ELSE Idle)
        /\ before' = <<>>
        /\ store' = IF fresh
                    THEN storeSetItem(store, makeDataKey(key),
                             NumberToString(expireAt) \o <<":">>
                                 \o JSONstringify(value))
                    ELSE storeRemoveItem(store, makeDataKey(key))

\* if (isNaN(expireAt) || expireAt > this.getNext()) return;
SetNext(i) ==
    /\ inst[i].pc = "next"
    /\ Step(i, "setNext", inst[i].key,
            IF Gt(inst[i].expireAt, getNext(store, {}).value) THEN Idle
            ELSE [inst[i] EXCEPT !.pc = "sentinel"])
    /\ before' = <<>>
    /\ UNCHANGED store

\* this.store.setItem(this.makeKey('next'), expireAt.toFixed());
SetSentinel(i) ==
    /\ inst[i].pc = "sentinel"
    /\ Step(i, "setSentinel", inst[i].key, Idle)
    /\ before' = <<>>
    /\ store' = storeSetItem(store, NextKey, NumberToString(inst[i].expireAt))

NextTwo ==
    \/ TickIdle
    \/ \E i \in Instances : CleanBegin(i)
    \/ \E i \in Instances : CleanList(i)
    \/ \E i \in Instances, key \in Keys : CleanDelete(i, key)
    \/ \E i \in Instances, key \in Keys, value \in Values, expire \in Ttls :
           SetBegin(i, key, value, expire)
    \/ \E i \in Instances : SetNext(i)
    \/ \E i \in Instances : SetSentinel(i)

\* two TTLStores on one store, their store calls interleaved
SpecTwo == Init /\ [][NextTwo]_vars

(***************************************************************************)
(* C17: with two instances on one namespace and store, operations are not  *)
(* atomic: when clean() of one instance has listed key k as expired and    *)
(* the other instance has then written a fresh entry of k with setItem,    *)
(* clean() deletes that fresh record, and getItem(k) returns null.         *)
(***************************************************************************)
C17_SweepEvictsFresh ==
    [][\A key \in Keys :
          (/\ op' = Call("cleanDelete", key)
           /\ Fresh(store, now, key)
           /\ \E i \in Instances : CleanDelete(i, key)) =>
              /\ ~HasRecord(store', key)
              /\ Returned(store', now', key) = {<<>>}
              /\ \A skey \in DOMAIN store' : store'[skey] = store[skey]]_vars
\* premature eviction: the sweep has deleted a record of k that was going
\* to expire only later, while the instance that wrote it is still inside
\* its setItem
C17_Witness ==
    \E key \in Keys, i \in Instances :
        /\ op = Call("cleanDelete", key)
        /\ before # <<>>
        /\ rawExpireAt(before[1]).kind = "num"
        /\ rawExpireAt(before[1]).n > now
        /\ JSONparse(rawPayload(before[1])) # <<>>
        /\ ~HasRecord(store, key)
        /\ inst[i].pc \in {"next", "sentinel"}
        /\ inst[i].key = key

(***************************************************************************)
(* A store shared with other users: unrelated records, and the records of  *)
(* a TTLStore with another name, are in the store when the TTLStore is     *)
(* constructed; with or without an expired record and a due sentinel of    *)
(* its own namespace, so that the constructor's clean() may sweep.         *)
(***************************************************************************)
Foreign ==
    [skey \in { <<"a">>,                             \* a bare logical key
                <<"m">>,                             \* the name alone
                <<"m", ":", "a">>,                   \* "m:" but not "m:next"
                <<"m", "m", ".", "a">>,              \* a record of "mm"
                <<"m", "m", ":", "n", "e", "x", "t">> } |->   \* its sentinel
        IF skey = <<"m">> THEN <<>>
        ELSE IF skey = <<"m", "m", ":", "n", "e", "x", "t">> THEN <<"1">>
        ELSE <<"1", ":">> \o JsonV]
SharedStores ==
    { Foreign,
      [skey \in DOMAIN Foreign \cup {makeDataKey(PreKey), NextKey} |->
          IF skey \in DOMAIN Foreign THEN Foreign[skey]
          ELSE IF skey = NextKey THEN NumberToString(Num(StartTime - 1))
          ELSE NumberToString(Num(StartTime - 1)) \o <<":">> \o JsonV] }

InitShared ==
    /\ store \in UNION {{c.store : c \in construct(s, {}, StartTime)} :
                           s \in SharedStores}
    /\ now = StartTime
    /\ op = Call("constructor", NoKey)
    /\ ret = <<>>
    /\ raised = FALSE
    /\ hist = [key \in Keys |-> NoWrite]
    /\ before = <<>>
    /\ inst = AllIdle

\* one TTLStore on a store that other users write to as well
SpecShared == InitShared /\ [][Next]_vars

(***************************************************************************)
(* C18: namespace isolation.  No operation of the TTLStore named N, the    *)
(* constructor and clean() included, creates, changes or deletes a record  *)
(* whose key is neither "N:next" nor prefixed by "N.": the records of      *)
(* unrelated data and of other namespaces stay as they were.               *)
(***************************************************************************)
\* the keys that belong to the namespace "m"
C18_Own(skey) ==
    \/ skey = <<"m", ":", "n", "e", "x", "t">>
    \/ (Len(skey) >= 2 /\ skey[1] = "m" /\ skey[2] = ".")
C18_NamespaceIsolation ==
    /\ \A skey \in DOMAIN Foreign :
          skey \in DOMAIN store /\ store[skey] = Foreign[skey]
    /\ \A skey \in DOMAIN store : skey \in DOMAIN Foreign \/ C18_Own(skey)
\* a sweep has taken out an expired record of the namespace, a record that
\* has not expired is there, and the expired-looking records of the others
\* are all there
C18_Witness ==
    /\ op = Call("clean", NoKey)
    /\ NextKey \in DOMAIN store
    /\ Passed(Sentinel, now)
    /\ \E key \in Keys :
          /\ hist[key].set
          /\ Passed(hist[key].expireAt, now)
          /\ ~HasRecord(store, key)
    /\ \E key \in Keys : Fresh(store, now, key)
    /\ \A skey \in DOMAIN Foreign : skey \in DOMAIN store
    /\ storeLength(store) = Cardinality(DOMAIN Foreign) + 2

(***************************************************************************)
(* C19: a write whose expiration is already due stores nothing and acts as *)
(* a removal: setItem(k, v, 0), setExpire(k, 0), and setItemUntil(k, v, T) *)
(* and setExpireAt(k, T) with T # -1 and T <= now delete the data record   *)
(* of k, also a fresh one, leave the sentinel and the other records as     *)
(* they were, and getItem(k) returns null afterwards.  So every data       *)
(* record that is written has expireAt = -1 or expireAt > the time of the  *)
(* write.                                                                  *)
(***************************************************************************)
\* expirations other than -1 that are due at time t
DueAts(t) == {Num(t), Num(t - 1), Num(0), Num(-2)}
\* the store without the record of key
C19_Removed(key) == storeRemoveItem(store, makeDataKey(key))
\* the outcomes of the writes of key whose expiration is due at this time
C19_DueWrites(key) ==
    {setItem(store, {}, now, key, value, 0) : value \in Values}
    \cup {setItemUntil(store, {}, now, key, value, T) :
              value \in Values, T \in DueAts(now)}
    \cup {setExpire(store, {}, now, key, 0)}
    \cup {setExpireAt(store, {}, now, key, T) : T \in DueAts(now)}
\* the outcomes of all the writes of key at this time
C19_Writes(key) ==
    {setItem(store, {}, now, key, value, expire) :
         value \in Values, expire \in Ttls}
    \cup {setItemUntil(store, {}, now, key, value, T) :
              value \in Values, T \in ExpireAts(now)}
    \cup {updateItem(store, {}, now, key, value) : value \in Values}
    \cup {setExpire(store, {}, now, key, expire) : expire \in Ttls}
    \cup {setExpireAt(store, {}, now, key, T) : T \in ExpireAts(now)}
\* in every state the TTLStore reaches, a due write of a key is a removal,
\* and a record that a write leaves has expireAt = -1 or > now
C19_DueWriteRemoves ==
    \A key \in Keys :
        /\ \A r \in C19_DueWrites(key) :
              ~r.threw /\ r.store = C19_Removed(key)
        /\ Returned(C19_Removed(key), now, key) = {<<>>}
        /\ \A r \in C19_Writes(key) :
              HasRecord(r.store, key) =>
                  LET e == rawExpireAt(r.store[makeDataKey(key)])
                  IN  e.kind = "num" /\ (e = Num(-1) \/ e.n > now)
\* setExpire(k, 0) has deleted a record of k that was not going to expire,
\* and the sentinel and the other key's record are there
C19_Witness ==
    \E key \in Keys :
        /\ op = Call("setExpire", key)
        /\ before # <<>>
        /\ rawExpireAt(before[1]) = Num(-1)
        /\ JSONparse(rawPayload(before[1])) # <<>>
        /\ ~HasRecord(store, key)
        /\ Returned(store, now, key) = {<<>>}
        /\ NextKey \in DOMAIN store
        /\ \E other \in Keys \ {key} : Fresh(store, now, other)

====
